---- MODULE Spec2Model ----
(***************************************************************************)
(* Model of poise's slash-command dispatch (src/src/dispatch/slash.rs).    *)
(*                                                                         *)
(* Command objects live in an arena: a node id stands for a                *)
(* `&'a crate::Command<U, E>` reference, so that two commands with equal   *)
(* fields are still different commands.                                    *)
(***************************************************************************)
EXTENDS Integers, Sequences, FiniteSets, TLC

VARIABLES
    framework,        \* framework.options.commands (top level) and the Command arena
    interaction,      \* the inbound interaction: name, options, kind, target
    entry,            \* which pub fn of slash.rs is being executed
    pc,               \* position inside that fn
    ctx,              \* the ApplicationContext built by extract_command, with the
                      \* caller's parent_commands Vec
    result,           \* what the fn returned to its caller
    checked,          \* what check_permissions_and_cooldown answered (history)
    raised,           \* what the command handler did (history)
    trace,            \* callbacks invoked by the current call, in order (history)
    ndispatch,        \* calls started so far
    panics,           \* earlier calls whose handler panicked (history)
    response,         \* the autocomplete response the current call transmitted
    now,              \* the clock the cooldown check reads
    last_invocation_time,   \* the cooldown tracker: cooldown key -> timestamp
    tasks,            \* the invocations running concurrently against the tracker
    create_reply,     \* the CreateReply being built, then the one complete_from_ctx returned
    reply_ctx,        \* what complete_from_ctx reads of its Context
    reply_pc,         \* "idle", "building" or "completed"
    explicit,         \* the last values given to ephemeral(..) and allowed_mentions(..) (history)
    completed,        \* the reply on entry to complete_from_ctx and as handed to reply_callback (history)
    nbuilder          \* builder methods called so far

cooldownVars == <<now, last_invocation_time, tasks>>
replyVars == <<create_reply, reply_ctx, reply_pc, explicit, completed, nbuilder>>

vars == <<framework, interaction, entry, pc, ctx, result, checked,
          raised, trace, ndispatch, panics, response, cooldownVars, replyVars>>

-----------------------------------------------------------------------------
(* Bounds *)

MaxScalars == 1       \* scalar options in a leaf option list
MaxDispatch == 2      \* calls made one after the other
MaxTime == 3          \* ticks of the clock the cooldown check reads
MaxBuilderCalls == 3  \* builder methods called on one CreateReply

-----------------------------------------------------------------------------
(* Values *)

NoneV == "None"                       \* Option::None
CommandNames == {"a", "b"}            \* Command::name
InteractionNames == {"a", "b", "c"}   \* CommandData::name / option.name of a subcommand

Range(s) == {s[i] : i \in DOMAIN s}

\* serenity::ResolvedOption: name + value; a SubCommand / SubCommandGroup value
\* carries the nested options.
ScalarOpt(i) == [name |-> "key", kind |-> "String", value |-> i, options |-> <<>>]
SubOpt(n, k, opts) == [name |-> n, kind |-> k, value |-> 0, options |-> opts]
\* ResolvedValue::Autocomplete { value, .. }: the option the user is typing in.
AutoOpt(n, partial) == [name |-> n, kind |-> "Autocomplete", value |-> partial, options |-> <<>>]

\* Leaf option lists: scalars only.
LeafOptionLists == {[i \in 1..r |-> ScalarOpt(i)] : r \in 0..MaxScalars}

\* An option list holding one subcommand option and nothing else.
NestPlain(inner, kind) ==
    {<<SubOpt(n, kind, o)>> : n \in InteractionNames, o \in inner}

\* Other options around the first subcommand option of the top-level list: a
\* scalar before it, a scalar or a second subcommand option after it.
Decorate(lists) ==
    {lead \o l \o trail :
        lead \in {<<>>, <<ScalarOpt(1)>>},
        l \in lists,
        trail \in {<<>>, <<ScalarOpt(1)>>, <<SubOpt("a", "SubCommand", <<>>)>>}}

OptionLists ==
    LeafOptionLists
    \cup Decorate(NestPlain(LeafOptionLists, "SubCommand"))
    \cup Decorate(NestPlain(NestPlain(LeafOptionLists, "SubCommand"), "SubCommandGroup"))

-----------------------------------------------------------------------------
(* The command tree *)

NodeIds == 1..7
TopLevel == <<1, 2>>
SubIds(c) == CASE c = 1 -> <<3, 4>>
               [] c = 2 -> <<5, 6>>
               [] c = 3 -> <<7>>
               [] OTHER -> <<>>

\* crate::CommandParameter: the fields run_autocomplete reads;
\* autocomplete_callback is TRUE for Some(callback).
Parameter(n, cb) == [name |-> n, autocomplete_callback |-> cb]
NoParameters == [c \in NodeIds |-> <<>>]

\* crate::Command: the fields slash.rs reads.
Command(n, cmn, subs, sa, cma, params) ==
    [name |-> n, context_menu_name |-> cmn, subcommands |-> subs,
     slash_action |-> sa, context_menu_action |-> cma, parameters |-> params]

Framework(names, cmns, sas, cmas, params) ==
    [commands |-> TopLevel,
     cmd |-> [c \in NodeIds |->
                Command(names[c], cmns[c], SubIds(c), sas[c], cmas[c], params[c])]]

\* The cooldown tracker before any invocation, and an invocation not yet started.
CooldownKeys == {"user1", "user2"}
Tasks == {1, 2}
\* Entries of the tracker are created on the first invocation of a key.
NoStamps == [k \in {} |-> 0]
IdleTask ==
    [entry |-> NoneV, pc |-> "idle", key |-> NoneV, kind |-> NoneV, result |-> NoneV,
     passed |-> FALSE, passed_at |-> 0, stamped |-> FALSE, handler_run |-> FALSE]
NoTasks == [t \in Tasks |-> IdleTask]

\* Option<T>: None, Some(v).
None == <<>>
Some(v) == <<v>>

\* CreateReply::default(), which CreateReply::new() returns.
Default ==
    [content |-> None, embeds |-> <<>>, attachments |-> <<>>, ephemeral |-> None,
     components |-> None, allowed_mentions |-> None, reply |-> FALSE]
\* ctx.command().ephemeral, ctx.framework().options().allowed_mentions and
\* .reply_callback, before a Context is given.
NoReplyCtx == [ephemeral |-> FALSE, allowed_mentions |-> None, reply_callback |-> None]
NoExplicit == [ephemeral |-> None, allowed_mentions |-> None]
NotCompleted == [self |-> Default, filled |-> Default]

\* The command trees of the resolver's specification: every naming of the seven
\* nodes, with or without a context-menu name on the first top-level command and
\* on each of its two subcommands.
ResolverFrameworks ==
    {Framework(names,
               [c \in NodeIds |-> CASE c = 1 -> x [] c = 3 -> y [] c = 4 -> z
                                    [] OTHER -> NoneV],
               [c \in NodeIds |-> TRUE],
               [c \in NodeIds |-> NoneV],
               NoParameters) :
        names \in [NodeIds -> CommandNames],
        x \in {NoneV, "b"}, y \in {NoneV, "b"}, z \in {NoneV, "a"}}

-----------------------------------------------------------------------------
(* find_matching_command *)

\* The test of the find_map closure: the interaction's name against the
\* command's name and its context_menu_name (None equals no name).
NameMatches(interaction_name, cmd) ==
    ~ (interaction_name # framework.cmd[cmd].name
       /\ (framework.cmd[cmd].context_menu_name = NoneV
           \/ interaction_name # framework.cmd[cmd].context_menu_name))

IsSubValue(option) == option.kind \in {"SubCommand", "SubCommandGroup"}

\* A faulty variant: a subcommand option is followed only when it is the only one.
SubInteraction_exactly_one(interaction_options) ==
    IF Cardinality({i \in DOMAIN interaction_options :
                        IsSubValue(interaction_options[i])}) = 1
    THEN CHOOSE i \in DOMAIN interaction_options : IsSubValue(interaction_options[i])
    ELSE 0

\* interaction_options.iter().find_map(..): the index of the first option whose
\* value is a SubCommand or a SubCommandGroup, 0 when there is none.
SubInteraction(interaction_options) ==
    IF \E i \in DOMAIN interaction_options : IsSubValue(interaction_options[i])
    THEN CHOOSE i \in DOMAIN interaction_options :
            /\ IsSubValue(interaction_options[i])
            /\ \A j \in 1..(i - 1) : ~ IsSubValue(interaction_options[j])
    ELSE 0

\* Option<(&Command, &[ResolvedOption])>, with parent_commands as the call left it.
NoMatch(parent_commands) ==
    [found |-> FALSE, cmd |-> 0, options |-> <<>>, parent_commands |-> parent_commands]
Match(cmd, options, parent_commands) ==
    [found |-> TRUE, cmd |-> cmd, options |-> options, parent_commands |-> parent_commands]

RECURSIVE find_matching_command(_, _, _, _)
RECURSIVE find_map_closure(_, _, _, _)

\* A faulty variant: a matched command is returned without looking for a subcommand option.
find_matching_command_no_descent(interaction_name, interaction_options, commands, parent_commands) ==
    IF \E i \in DOMAIN commands : NameMatches(interaction_name, commands[i])
    THEN Match(commands[CHOOSE i \in DOMAIN commands :
                    /\ NameMatches(interaction_name, commands[i])
                    /\ \A j \in 1..(i - 1) : ~ NameMatches(interaction_name, commands[j])],
               interaction_options, parent_commands)
    ELSE NoMatch(parent_commands)

\* commands.iter().find_map(closure): the first sibling, in declaration order,
\* for which the closure returns Some; the pushes of the siblings tried before
\* it stay in parent_commands.
find_matching_command(interaction_name, interaction_options, commands, parent_commands) ==
    IF commands = <<>>
    THEN NoMatch(parent_commands)
    ELSE LET r == find_map_closure(Head(commands), interaction_name,
                                   interaction_options, parent_commands)
         IN  IF r.found
             THEN r
             ELSE find_matching_command(interaction_name, interaction_options,
                                        Tail(commands), r.parent_commands)

\* The closure applied to one sibling.
find_map_closure(cmd, interaction_name, interaction_options, parent_commands) ==
    IF ~ NameMatches(interaction_name, cmd)
    THEN NoMatch(parent_commands)
    ELSE LET sub == SubInteraction(interaction_options)
         IN  IF sub # 0
             THEN find_matching_command(interaction_options[sub].name,
                                        interaction_options[sub].options,
                                        framework.cmd[cmd].subcommands,
                                        Append(parent_commands, cmd))
             ELSE Match(cmd, interaction_options, parent_commands)

-----------------------------------------------------------------------------
(* extract_command *)

Ok == [kind |-> "Ok", payload |-> NoneV]
Err(kind, payload) == [kind |-> kind, payload |-> payload]
Pending == [kind |-> "Pending", payload |-> NoneV]
Panic(payload) == [kind |-> "Panic", payload |-> payload]   \* an unwinding panic
NotRun == [kind |-> "NotRun", payload |-> NoneV]

NoInteraction == [name |-> NoneV, options |-> <<>>, kind |-> NoneV, target |-> NoneV]
NoResponse == [body |-> NoneV, outcome |-> NoneV]   \* nothing transmitted
NoCtx == [command |-> 0, args |-> <<>>, parent_commands |-> <<>>]

\* search_result.ok_or(UnknownInteraction)?, then the ApplicationContext. The
\* caller's parent_commands Vec starts empty.
extract_command(i) ==
    LET search_result == find_matching_command(i.name, i.options, framework.commands, <<>>)
    IN  IF search_result.found
        THEN [result |-> Ok,
              ctx |-> [command |-> search_result.cmd,
                       args |-> search_result.options,
                       parent_commands |-> search_result.parent_commands]]
        ELSE [result |-> Err("UnknownInteraction", NoneV),
              ctx |-> [NoCtx EXCEPT !.parent_commands = search_result.parent_commands]]

-----------------------------------------------------------------------------
(* The resolver alone: extract_command on every tree and every interaction *)

InitResolver ==
    /\ framework \in ResolverFrameworks
    /\ interaction = NoInteraction
    /\ entry = "extract_command"
    /\ pc = "idle"
    /\ ctx = NoCtx
    /\ result = Pending
    /\ checked = NoneV
    /\ raised = NotRun
    /\ trace = <<>>
    /\ ndispatch = 0
    /\ panics = 0
    /\ response = NoResponse
    /\ now = 0
    /\ last_invocation_time = NoStamps
    /\ tasks = NoTasks
    /\ create_reply = Default
    /\ reply_ctx = NoReplyCtx
    /\ reply_pc = "idle"
    /\ explicit = NoExplicit
    /\ completed = NotCompleted
    /\ nbuilder = 0

Resolve ==
    /\ pc = "idle"
    /\ \E n \in InteractionNames, o \in OptionLists :
          LET i == [name |-> n, options |-> o, kind |-> "ChatInput", target |-> NoneV]
              r == extract_command(i)
          IN  /\ interaction' = i
              /\ ctx' = r.ctx
              /\ result' = r.result
    /\ pc' = "returned"
    /\ trace' = <<"resolve">>
    /\ UNCHANGED <<framework, entry, checked, raised, ndispatch, panics>>
    /\ UNCHANGED <<response, cooldownVars, replyVars>>

NextResolver == Resolve

SpecResolver == InitResolver /\ [][NextResolver]_vars

-----------------------------------------------------------------------------
(* dispatch_interaction, extract_command_and_run_checks, run_command *)

\* The command trees of the dispatch specification: distinct sibling names, the
\* actions of the top-level command "a" and of its subcommand "a" vary.
DispatchNames == <<"a", "b", "a", "b", "a", "b", "a">>
DispatchFrameworks ==
    {Framework(DispatchNames,
               [c \in NodeIds |-> NoneV],
               [c \in NodeIds |-> CASE c = 1 -> sa1 [] c = 3 -> sa3 [] OTHER -> TRUE],
               [c \in NodeIds |-> IF c = 1 THEN cma1 ELSE NoneV],
               NoParameters) :
        sa1 \in BOOLEAN, sa3 \in BOOLEAN, cma1 \in {NoneV, "User", "Message"}}

\* The interactions dispatched: the command "a" or the unregistered "c", alone,
\* with the subcommand "a" or with the unregistered subcommand "c"; a kind, and
\* for the context-menu kinds the resolved target.
DispatchOptionLists ==
    {<<>>,
     <<SubOpt("a", "SubCommand", <<ScalarOpt(1)>>)>>,
     <<SubOpt("c", "SubCommand", <<>>)>>}
KindsAndTargets ==
    {<<"ChatInput", NoneV>>, <<"Other", NoneV>>}
    \cup ({"User", "Message"} \X {NoneV, "User", "Message"})
DispatchInteractions ==
    {[name |-> n, options |-> o, kind |-> kt[1], target |-> kt[2]] :
        n \in {"a", "c"}, o \in DispatchOptionLists, kt \in KindsAndTargets}

\* What the callbacks can answer. common.rs is not part of the sources read
\* here: the check either passes or returns one of its errors.
CheckOutcomes == {"Pass", "CooldownHit", "CommandCheckFailed"}
HandlerOutcomes ==
    {Ok, Err("HandlerError", "e1"), Err("HandlerError", "e2"), Panic("boom"), Panic(NoneV)}
HandlerEvents ==
    {"slash_action", "ContextMenuCommandAction::User", "ContextMenuCommandAction::Message"}

\* crate::catch_unwind_maybe: a panic of the future is caught and its payload
\* returned as Err; anything else is returned as Ok(value).
catch_unwind_maybe(outcome) ==
    IF outcome.kind = "Panic"
    THEN [caught |-> TRUE, payload |-> outcome.payload, value |-> Pending]
    ELSE [caught |-> FALSE, payload |-> NoneV, value |-> outcome]

\* A faulty variant: the payload of the panic is dropped.
DispatchResult_drops_payload(outcome) ==
    LET r == catch_unwind_maybe(outcome)
    IN  IF r.caught THEN Err("CommandPanic", NoneV) ELSE r.value

\* catch_unwind_maybe(run_command(ctx)).await.map_err(|payload| CommandPanic)??
\* followed by Ok(()): what dispatch_interaction returns for an outcome of
\* run_command.
DispatchResult(outcome) ==
    LET r == catch_unwind_maybe(outcome)
    IN  IF r.caught THEN Err("CommandPanic", r.payload) ELSE r.value

Init ==
    /\ framework \in DispatchFrameworks
    /\ interaction = NoInteraction
    /\ entry = NoneV
    /\ pc = "idle"
    /\ ctx = NoCtx
    /\ result = Pending
    /\ checked = NoneV
    /\ raised = NotRun
    /\ trace = <<>>
    /\ ndispatch = 0
    /\ panics = 0
    /\ response = NoResponse
    /\ now = 0
    /\ last_invocation_time = NoStamps
    /\ tasks = NoTasks
    /\ create_reply = Default
    /\ reply_ctx = NoReplyCtx
    /\ reply_pc = "idle"
    /\ explicit = NoExplicit
    /\ completed = NotCompleted
    /\ nbuilder = 0

\* A caller enters the pub fn e with a fresh interaction and an empty
\* parent_commands Vec.
Call(e) ==
    /\ entry # "extract_command"
    /\ pc \in {"idle", "returned"}
    /\ ndispatch < MaxDispatch
    /\ interaction' \in DispatchInteractions
    /\ entry' = e
    /\ pc' = "extract_command"
    /\ ctx' = NoCtx
    /\ result' = Pending
    /\ checked' = NoneV
    /\ raised' = NotRun
    /\ trace' = <<>>
    /\ ndispatch' = ndispatch + 1
    /\ panics' = IF raised.kind = "Panic" THEN panics + 1 ELSE panics
    /\ response' = NoResponse
    /\ UNCHANGED <<framework, cooldownVars, replyVars>>

DispatchInteraction == Call("dispatch_interaction")

ExtractCommandAndRunChecks == Call("extract_command_and_run_checks")

Return(r) ==
    /\ pc' = "returned"
    /\ result' = r

\* A faulty variant: an interaction that matches no command is let through as a success.
ExtractCommand_miss_is_ok ==
    /\ pc = "extract_command"
    /\ LET r == extract_command(interaction)
       IN  /\ ctx' = r.ctx
           /\ IF r.result = Ok
              THEN pc' = "check" /\ UNCHANGED result
              ELSE Return(Ok)
    /\ trace' = Append(trace, "resolve")
    /\ UNCHANGED <<framework, interaction, entry, checked, raised, ndispatch, panics>>
    /\ UNCHANGED <<response, cooldownVars, replyVars>>

\* let ctx = extract_command(..)?; in both pub fns
ExtractCommand ==
    /\ pc = "extract_command"
    /\ LET r == extract_command(interaction)
       IN  /\ ctx' = r.ctx
           /\ IF r.result = Ok
              THEN pc' = "check" /\ UNCHANGED result
              ELSE Return(r.result)
    /\ trace' = Append(trace, "resolve")
    /\ UNCHANGED <<framework, interaction, entry, checked, raised, ndispatch, panics>>
    /\ UNCHANGED <<response, cooldownVars, replyVars>>

\* extract_command_and_run_checks: check_permissions_and_cooldown(ctx).await?; Ok(ctx)
RunChecks ==
    /\ pc = "check"
    /\ entry = "extract_command_and_run_checks"
    /\ \E o \in CheckOutcomes :
          /\ checked' = o
          /\ Return(IF o = "Pass" THEN Ok ELSE Err(o, NoneV))
    /\ trace' = Append(trace, "check")
    /\ UNCHANGED <<framework, interaction, entry, ctx, raised, ndispatch, panics>>
    /\ UNCHANGED <<response, cooldownVars, replyVars>>

\* A faulty variant: the check is made twice before the command runs.
RunCommand_Check_twice ==
    /\ pc = "check"
    /\ entry = "dispatch_interaction"
    /\ \E o \in CheckOutcomes :
          /\ checked' = o
          /\ IF o = "Pass"
             THEN pc' = "pre_command" /\ UNCHANGED result
             ELSE Return(DispatchResult(Err(o, NoneV)))
    /\ trace' = trace \o <<"check", "check">>
    /\ UNCHANGED <<framework, interaction, entry, ctx, raised, ndispatch, panics>>
    /\ UNCHANGED <<response, cooldownVars, replyVars>>

\* A faulty variant: a rejection by the check does not stop the command.
RunCommand_Check_ignored ==
    /\ pc = "check"
    /\ entry = "dispatch_interaction"
    /\ \E o \in CheckOutcomes : checked' = o
    /\ pc' = "pre_command"
    /\ trace' = Append(trace, "check")
    /\ UNCHANGED <<framework, interaction, entry, ctx, result, raised, ndispatch, panics>>
    /\ UNCHANGED <<response, cooldownVars, replyVars>>

\* run_command: check_permissions_and_cooldown(ctx).await?;
RunCommand_Check ==
    /\ pc = "check"
    /\ entry = "dispatch_interaction"
    /\ \E o \in CheckOutcomes :
          /\ checked' = o
          /\ IF o = "Pass"
             THEN pc' = "pre_command" /\ UNCHANGED result
             ELSE Return(DispatchResult(Err(o, NoneV)))
    /\ trace' = Append(trace, "check")
    /\ UNCHANGED <<framework, interaction, entry, ctx, raised, ndispatch, panics>>
    /\ UNCHANGED <<response, cooldownVars, replyVars>>

\* A faulty variant: pre_command is left out and the action is selected at once.
RunCommand_PreCommand_skipped ==
    /\ pc = "pre_command"
    /\ pc' = "action"
    /\ UNCHANGED <<framework, interaction, entry, ctx, result, checked, raised, trace,
                   ndispatch, panics>>
    /\ UNCHANGED <<response, cooldownVars, replyVars>>

\* run_command: (pre_command)(ctx).await;
RunCommand_PreCommand ==
    /\ pc = "pre_command"
    /\ trace' = Append(trace, "pre_command")
    /\ pc' = "action"
    /\ UNCHANGED <<framework, interaction, entry, ctx, result, checked, raised,
                   ndispatch, panics>>
    /\ UNCHANGED <<response, cooldownVars, replyVars>>

\* A faulty variant: a context-menu action is chosen without looking at the target.
SelectAction_ignores_target(cmd, kind, target) ==
    CASE kind = "ChatInput" ->
            IF framework.cmd[cmd].slash_action THEN "slash_action" ELSE "mismatch"
      [] kind = "User" ->
            IF framework.cmd[cmd].context_menu_action = "User"
            THEN "ContextMenuCommandAction::User" ELSE "mismatch"
      [] kind = "Message" ->
            IF framework.cmd[cmd].context_menu_action = "Message"
            THEN "ContextMenuCommandAction::Message" ELSE "mismatch"
      [] OTHER -> "other"

\* A faulty variant: an unknown command type is reported as a structure mismatch.
SelectAction_other_is_mismatch(cmd, kind, target) ==
    CASE kind = "ChatInput" ->
            IF framework.cmd[cmd].slash_action THEN "slash_action" ELSE "mismatch"
      [] kind = "User" ->
            IF framework.cmd[cmd].context_menu_action = "User" /\ target = "User"
            THEN "ContextMenuCommandAction::User" ELSE "mismatch"
      [] kind = "Message" ->
            IF framework.cmd[cmd].context_menu_action = "Message" /\ target = "Message"
            THEN "ContextMenuCommandAction::Message" ELSE "mismatch"
      [] OTHER -> "mismatch"

\* match ctx.interaction.data().kind { .. }: the action to execute, "mismatch"
\* for command_structure_mismatch_error, "other" for an unknown command type.
SelectAction(cmd, kind, target) ==
    CASE kind = "ChatInput" ->
            IF framework.cmd[cmd].slash_action THEN "slash_action" ELSE "mismatch"
      [] kind = "User" ->
            IF framework.cmd[cmd].context_menu_action = "User" /\ target = "User"
            THEN "ContextMenuCommandAction::User" ELSE "mismatch"
      [] kind = "Message" ->
            IF framework.cmd[cmd].context_menu_action = "Message" /\ target = "Message"
            THEN "ContextMenuCommandAction::Message" ELSE "mismatch"
      [] OTHER -> "other"

Selected == SelectAction(ctx.command, interaction.kind, interaction.target)

\* run_command: .ok_or(command_structure_mismatch_error)? and
\* _ => return Err(command_structure_mismatch_error)
RunCommand_Mismatch ==
    /\ pc = "action"
    /\ Selected = "mismatch"
    /\ Return(DispatchResult(Err("CommandStructureMismatch", NoneV)))
    /\ UNCHANGED <<framework, interaction, entry, ctx, checked, raised, trace,
                   ndispatch, panics>>
    /\ UNCHANGED <<response, cooldownVars, replyVars>>

\* run_command: other => { log::warn!(..); return Ok(()); }
RunCommand_OtherKind ==
    /\ pc = "action"
    /\ Selected = "other"
    /\ Return(DispatchResult(Ok))
    /\ UNCHANGED <<framework, interaction, entry, ctx, checked, raised, trace,
                   ndispatch, panics>>
    /\ UNCHANGED <<response, cooldownVars, replyVars>>

\* A faulty variant: post_command runs whatever the action returned.
RunCommand_Action_error_ignored ==
    /\ pc = "action"
    /\ Selected \in HandlerEvents
    /\ \E o \in HandlerOutcomes :
          /\ raised' = o
          /\ IF o.kind = "Panic"
             THEN Return(DispatchResult(o))
             ELSE pc' = "post_command" /\ UNCHANGED result
    /\ trace' = Append(trace, Selected)
    /\ UNCHANGED <<framework, interaction, entry, ctx, checked, ndispatch, panics>>
    /\ UNCHANGED <<response, cooldownVars, replyVars>>

\* run_command: action(ctx).await, then action_result?; a panic of the action
\* unwinds run_command.
RunCommand_Action ==
    /\ pc = "action"
    /\ Selected \in HandlerEvents
    /\ \E o \in HandlerOutcomes :
          /\ raised' = o
          /\ IF o = Ok
             THEN pc' = "post_command" /\ UNCHANGED result
             ELSE Return(DispatchResult(o))
    /\ trace' = Append(trace, Selected)
    /\ UNCHANGED <<framework, interaction, entry, ctx, checked, ndispatch, panics>>
    /\ UNCHANGED <<response, cooldownVars, replyVars>>

\* A faulty variant: post_command is not invoked.
RunCommand_PostCommand_skipped ==
    /\ pc = "post_command"
    /\ Return(DispatchResult(Ok))
    /\ UNCHANGED <<framework, interaction, entry, ctx, checked, raised, trace,
                   ndispatch, panics>>
    /\ UNCHANGED <<response, cooldownVars, replyVars>>

\* run_command: (post_command)(ctx).await; Ok(())
RunCommand_PostCommand ==
    /\ pc = "post_command"
    /\ trace' = Append(trace, "post_command")
    /\ Return(DispatchResult(Ok))
    /\ UNCHANGED <<framework, interaction, entry, ctx, checked, raised, ndispatch, panics>>
    /\ UNCHANGED <<response, cooldownVars, replyVars>>

Next ==
    \/ DispatchInteraction
    \/ ExtractCommandAndRunChecks
    \/ ExtractCommand
    \/ RunChecks
    \/ RunCommand_Check
    \/ RunCommand_PreCommand
    \/ RunCommand_Mismatch
    \/ RunCommand_OtherKind
    \/ RunCommand_Action
    \/ RunCommand_PostCommand

Spec == Init /\ [][Next]_vars

-----------------------------------------------------------------------------
(* The resolver's claims, stated on the tree and the interaction *)

Last(s) == s[Len(s)]

\* The sibling lists of the tree: the top level and every command's subcommands.
SiblingLists == {framework.commands} \cup {framework.cmd[c].subcommands : c \in NodeIds}

\* The paths through the tree, from a top-level command downwards.
TreePaths ==
    LET subs(c) == Range(framework.cmd[c].subcommands)
        top == Range(framework.commands)
    IN  {<<c>> : c \in top}
        \cup UNION {{<<c, d>> : d \in subs(c)} : c \in top}
        \cup UNION {UNION {{<<c, d, e>> : e \in subs(d)} : d \in subs(c)} : c \in top}

ParentOf(c) ==
    IF \E p \in NodeIds : c \in Range(framework.cmd[p].subcommands)
    THEN CHOOSE p \in NodeIds : c \in Range(framework.cmd[p].subcommands)
    ELSE 0

\* The path from the top level down to c.
RECURSIVE PathTo(_)
PathTo(c) == IF c = 0 THEN <<>> ELSE Append(PathTo(ParentOf(c)), c)

\* The siblings of c, itself included, in declaration order.
Siblings(c) ==
    IF ParentOf(c) = 0 THEN framework.commands
    ELSE framework.cmd[ParentOf(c)].subcommands

\* The position of c among its siblings.
Pos(c) == CHOOSE i \in DOMAIN Siblings(c) : Siblings(c)[i] = c

SubOptionIndexes(options) ==
    {i \in DOMAIN options : options[i].kind \in {"SubCommand", "SubCommandGroup"}}
FirstSubOption(options) ==
    CHOOSE i \in SubOptionIndexes(options) : \A j \in SubOptionIndexes(options) : i <= j

\* The names of the interaction, outermost first: its own name, then the name of
\* the subcommand option of each nested level.
RECURSIVE Tokens(_, _)
Tokens(name, options) ==
    IF SubOptionIndexes(options) = {}
    THEN <<name>>
    ELSE <<name>> \o Tokens(options[FirstSubOption(options)].name,
                            options[FirstSubOption(options)].options)

\* The option list nested innermost.
RECURSIVE Residual(_)
Residual(options) ==
    IF SubOptionIndexes(options) = {}
    THEN options
    ELSE Residual(options[FirstSubOption(options)].options)

\* No level of the option tree carries two subcommand options: the interaction
\* names one path.
RECURSIVE OnePath(_)
OnePath(options) ==
    /\ Cardinality(SubOptionIndexes(options)) <= 1
    /\ \A i \in SubOptionIndexes(options) : OnePath(options[i].options)

InteractionTokens == Tokens(interaction.name, interaction.options)

\* The interaction exactly matches path p: name by name.
PathNamed(p) ==
    /\ Len(p) = Len(InteractionTokens)
    /\ \A j \in DOMAIN p : framework.cmd[p[j]].name = InteractionTokens[j]

DistinctSiblingNames ==
    \A l \in SiblingLists : \A i, j \in DOMAIN l :
        i # j => framework.cmd[l[i]].name # framework.cmd[l[j]].name

\* No command's context_menu_name is the name of a sibling declared after it.
NoContextMenuNameClash ==
    \A l \in SiblingLists : \A i, j \in DOMAIN l :
        i < j => framework.cmd[l[i]].context_menu_name # framework.cmd[l[j]].name

Resolved == pc = "returned" /\ entry = "extract_command"

C2_ParentsAreAncestors ==
    (Resolved /\ result = Ok) =>
        /\ ctx.parent_commands = PathTo(ParentOf(ctx.command))
        /\ Len(ctx.parent_commands) = Len(InteractionTokens) - 1

\* A sibling matches a name by its name or by its context_menu_name.
Matches(c, token) ==
    \/ framework.cmd[c].name = token
    \/ framework.cmd[c].context_menu_name = token

FirstMatchingSibling(c, token) ==
    /\ Matches(c, token)
    /\ \A i \in DOMAIN Siblings(c) : i < Pos(c) => ~ Matches(Siblings(c)[i], token)

\* The paths whose nodes match the interaction's names level by level.
MatchPaths ==
    LET tokens == InteractionTokens
    IN  {p \in TreePaths :
            /\ Len(p) = Len(tokens)
            /\ \A j \in DOMAIN p : Matches(p[j], tokens[j])}

\* p comes before q in declaration order (depth first).
Before(p, q) ==
    \E j \in DOMAIN p :
        /\ j \in DOMAIN q
        /\ \A k \in 1..(j - 1) : p[k] = q[k]
        /\ Pos(p[j]) < Pos(q[j])

\* C3 as claimed: every node on the returned path is the first of its siblings
\* that matches the name of its level.
C3_AsClaimed ==
    (Resolved /\ result = Ok) =>
        \A j \in DOMAIN PathTo(ctx.command) :
            FirstMatchingSibling(PathTo(ctx.command)[j], InteractionTokens[j])

\* What the code does where C3 fails: the search goes on to the next sibling
\* when the subcommands of a matching one do not resolve the nested names, so
\* the returned path is the first, in declaration order, of the paths that
\* match level by level.
FirstResolvingSibling ==
    Resolved =>
        LET paths == MatchPaths
            returned == PathTo(ctx.command)
        IN  /\ (result = Ok) = (paths # {})
            /\ result = Ok =>
                /\ returned \in paths
                /\ \A q \in paths : ~ Before(q, returned)

-----------------------------------------------------------------------------
(* The dispatcher's claims *)

InDispatch == entry = "dispatch_interaction"

Count(ev) == Cardinality({i \in DOMAIN trace : trace[i] = ev})

\* The command handlers the current call has invoked, in order.
HandlersRun == SelectSeq(trace, LAMBDA ev : ev \in HandlerEvents)

\* C4: when no node of the tree matches the interaction at some level,
\* dispatch_interaction returns UnknownInteraction and has invoked neither the
\* check pipeline, nor pre_command, nor a handler, nor post_command.
C4_UnknownInteraction ==
    (InDispatch /\ pc # "extract_command" /\ MatchPaths = {}) =>
        /\ pc = "returned"
        /\ result = Err("UnknownInteraction", NoneV)
        /\ trace = <<"resolve">>

\* C4's case: the command is registered, the subcommand named under it is not.
C4_Witness ==
    /\ InDispatch /\ pc = "returned"
    /\ Len(InteractionTokens) = 2
    /\ \E c \in Range(framework.commands) : Matches(c, InteractionTokens[1])
    /\ MatchPaths = {}
    /\ result = Err("UnknownInteraction", NoneV)

\* C5 as claimed: a dispatch_interaction call that reaches handler execution
\* has invoked the check pipeline exactly twice.
C5_AsClaimed ==
    (InDispatch /\ HandlersRun # <<>>) => Count("check") = 2

\* C5, amended: a dispatch_interaction call that reaches handler execution has
\* invoked the check pipeline exactly once, in run_command, after the
\* resolution and before pre_command and the handler; a call of
\* extract_command_and_run_checks invokes it at most once and runs no handler.
C5_CheckedOnce ==
    /\ (InDispatch /\ HandlersRun # <<>>) =>
          /\ Count("check") = 1
          /\ SubSeq(trace, 1, 4) = <<"resolve", "check", "pre_command", HandlersRun[1]>>
    /\ entry = "extract_command_and_run_checks" =>
          /\ Count("check") <= 1
          /\ HandlersRun = <<>>

\* C5's case: a dispatch_interaction call has executed a handler and returned.
C5_Witness ==
    /\ InDispatch /\ pc = "returned"
    /\ HandlersRun # <<>>
    /\ Count("check") = 1

\* C6: when the check pipeline rejects in run_command, the rejection is what
\* dispatch_interaction returns, and neither pre_command nor a handler nor
\* post_command is invoked.
C6_RejectionStops ==
    (InDispatch /\ checked \notin {NoneV, "Pass"}) =>
        /\ pc = "returned"
        /\ result = Err(checked, NoneV)
        /\ trace = <<"resolve", "check">>

\* C6's case: the check of run_command answered with a cooldown rejection.
C6_Witness ==
    /\ InDispatch /\ pc = "returned"
    /\ checked = "CooldownHit"
    /\ result.kind = "CooldownHit"

\* C7: a dispatch_interaction call that returns success after running a
\* handler went resolve, check, pre_command, handler, post_command, each once;
\* no call invokes a handler more than once.
C7_Order ==
    InDispatch =>
        /\ Len(HandlersRun) <= 1
        /\ (pc = "returned" /\ result = Ok /\ HandlersRun # <<>>) =>
              trace = <<"resolve", "check", "pre_command", HandlersRun[1], "post_command">>

\* C7's case: a call returned success after its slash action ran.
C7_Witness ==
    /\ InDispatch /\ pc = "returned" /\ result = Ok
    /\ HandlersRun = <<"slash_action">>

\* C8: post_command is invoked only after the handler returned success; when
\* the handler returns an error, post_command is not invoked, the handler ran
\* once and dispatch_interaction returns that error as it is.
C8_HandlerError ==
    InDispatch =>
        /\ Count("post_command") > 0 => raised = Ok
        /\ raised.kind = "HandlerError" =>
              /\ pc = "returned"
              /\ result = raised
              /\ Count("post_command") = 0
              /\ Len(HandlersRun) = 1

\* C8's case: the handler returned the error e2.
C8_Witness ==
    /\ InDispatch /\ pc = "returned"
    /\ raised = Err("HandlerError", "e2")
    /\ result = raised

\* The trace of a call that ran its handler to success.
Complete ==
    /\ Len(trace) = 5
    /\ SubSeq(trace, 1, 3) = <<"resolve", "check", "pre_command">>
    /\ trace[4] \in HandlerEvents
    /\ trace[5] = "post_command"

\* C9: a panic of the handler does not leave dispatch_interaction as a panic:
\* the call returns CommandPanic with the panic's payload and post_command is
\* not invoked; a call made after a panicked one resolves, checks and runs its
\* handler as usual.
C9_PanicIsolated ==
    InDispatch =>
        /\ result.kind # "Panic"
        /\ raised.kind = "Panic" =>
              /\ pc = "returned"
              /\ result = Err("CommandPanic", raised.payload)
              /\ Count("post_command") = 0
        /\ (panics > 0 /\ pc = "returned") =>
              /\ (result = Err("UnknownInteraction", NoneV)) = (MatchPaths = {})
              /\ (checked = "Pass" /\ raised = Ok) => (result = Ok /\ Complete)

\* C9's case: after a call whose handler panicked and returned CommandPanic, a
\* later call ran its handler and returned success.
C9_Witness ==
    /\ InDispatch /\ pc = "returned"
    /\ panics > 0
    /\ result = Ok
    /\ HandlersRun # <<>>

\* The handler the claim expects for the interaction's kind: none when the
\* command registers no matching action or the target is of another kind.
ExpectedHandlers ==
    LET cmd == framework.cmd[ctx.command]
    IN  CASE interaction.kind = "ChatInput" /\ cmd.slash_action -> <<"slash_action">>
          [] /\ interaction.kind = "User"
             /\ cmd.context_menu_action = "User"
             /\ interaction.target = "User" -> <<"ContextMenuCommandAction::User">>
          [] /\ interaction.kind = "Message"
             /\ cmd.context_menu_action = "Message"
             /\ interaction.target = "Message" -> <<"ContextMenuCommandAction::Message">>
          [] OTHER -> <<>>

\* C10: for a chat-input, user-context-menu or message-context-menu
\* interaction that passed the check, the handler run is the slash action, the
\* user action on a user target, the message action on a message target; in
\* every other combination no handler runs and the result is
\* CommandStructureMismatch.
C10_HandlerSelection ==
    (/\ InDispatch
     /\ checked = "Pass"
     /\ pc \in {"post_command", "returned"}
     /\ interaction.kind \in {"ChatInput", "User", "Message"}) =>
        /\ HandlersRun = ExpectedHandlers
        /\ ExpectedHandlers = <<>> => result = Err("CommandStructureMismatch", NoneV)

\* C10's case: a user-context-menu interaction on a user, on a command that
\* registers only a message action.
C10_Witness ==
    /\ InDispatch /\ pc = "returned"
    /\ ctx.command # 0
    /\ interaction.kind = "User" /\ interaction.target = "User"
    /\ framework.cmd[ctx.command].context_menu_action = "Message"
    /\ result = Err("CommandStructureMismatch", NoneV)
    /\ HandlersRun = <<>>

\* C11: for an interaction whose command kind is none of chat-input,
\* user-context and message-context, run_command (entered with a passing
\* check) executes no handler, does not invoke post_command and
\* dispatch_interaction returns success.
C11_OtherKindIsSuccess ==
    (/\ InDispatch
     /\ checked = "Pass"
     /\ interaction.kind \notin {"ChatInput", "User", "Message"}) =>
        /\ HandlersRun = <<>>
        /\ Count("post_command") = 0
        /\ pc \notin {"action", "pre_command"} => (pc = "returned" /\ result = Ok)

\* C11's case: an interaction of another kind on a command that has a slash
\* action returned success with only resolve, check and pre_command run.
C11_Witness ==
    /\ InDispatch /\ pc = "returned"
    /\ interaction.kind = "Other"
    /\ ctx.command # 0
    /\ framework.cmd[ctx.command].slash_action
    /\ trace = <<"resolve", "check", "pre_command">>
    /\ result = Ok

-----------------------------------------------------------------------------
(* The resolver's claims on the descent and on context-menu names *)

\* The first top-level command the interaction's name matches, 0 when none does.
FirstTopLevelMatch ==
    IF \E i \in DOMAIN framework.commands :
            NameMatches(interaction.name, framework.commands[i])
    THEN framework.commands[CHOOSE i \in DOMAIN framework.commands :
            /\ NameMatches(interaction.name, framework.commands[i])
            /\ \A j \in 1..(i - 1) :
                    ~ NameMatches(interaction.name, framework.commands[j])]
    ELSE 0

\* C19 as claimed: the resolver descends below a matched node exactly when the
\* option list holds exactly one subcommand or subcommand-group option; with
\* none or with more than one, the matched node is returned with the option
\* list untouched.
C19_AsClaimed ==
    (Resolved /\ FirstTopLevelMatch # 0) =>
        IF Cardinality(SubOptionIndexes(interaction.options)) = 1
        THEN result = Ok => ctx.command \notin Range(framework.commands)
        ELSE /\ result = Ok
             /\ ctx.command = FirstTopLevelMatch
             /\ ctx.args = interaction.options

\* C19, amended: the resolver descends below a matched node exactly when the
\* option list holds at least one subcommand or subcommand-group option, and it
\* descends into the first of them; with none, the matched node is returned
\* with the option list untouched. A successful resolution therefore lies as
\* deep as the chain of first subcommand options and returns the options
\* nested innermost along that chain.
C19_DescendsIntoFirst ==
    Resolved =>
        /\ result = Ok =>
              /\ Len(PathTo(ctx.command)) = Len(InteractionTokens)
              /\ ctx.args = Residual(interaction.options)
        /\ (FirstTopLevelMatch # 0 /\ SubOptionIndexes(interaction.options) = {}) =>
              /\ result = Ok
              /\ ctx.command = FirstTopLevelMatch
              /\ ctx.args = interaction.options
        /\ (result = Ok /\ SubOptionIndexes(interaction.options) # {}) =>
              ctx.command \notin Range(framework.commands)

\* C19's case: the top-level option list holds two subcommand options and the
\* resolver returned a subcommand, reached through the first of them, with
\* that option's nested options.
C19_Witness ==
    /\ Resolved /\ result = Ok
    /\ Cardinality(SubOptionIndexes(interaction.options)) = 2
    /\ Len(PathTo(ctx.command)) = 2
    /\ ctx.args = interaction.options[FirstSubOption(interaction.options)].options
    /\ ctx.args # <<>>

\* C20: for a chat-input interaction every node on the resolved path, the
\* returned node included, was selected because the token of its level equals
\* its name: a node whose name differs from the token is never resolved
\* through its context_menu_name.
C20_NameOnlyForChatInput ==
    (Resolved /\ result = Ok /\ interaction.kind = "ChatInput") =>
        \A j \in DOMAIN PathTo(ctx.command) :
            j <= Len(InteractionTokens) =>
                framework.cmd[PathTo(ctx.command)[j]].name = InteractionTokens[j]

-----------------------------------------------------------------------------
(* dispatch_autocomplete and run_autocomplete *)

\* The parameter lists a command declares: none, one with or without a
\* generator, two of which the second has the generator, and two of the same
\* name of which only the second has a generator.
ParameterLists ==
    {<<>>,
     <<Parameter("q", TRUE)>>,
     <<Parameter("q", FALSE)>>,
     <<Parameter("key", FALSE), Parameter("q", TRUE)>>,
     <<Parameter("q", FALSE), Parameter("q", TRUE)>>}

\* The trees of the autocomplete specification: the command "a" and its
\* subcommand "a" with every parameter list.
AutocompleteFrameworks ==
    {Framework(DispatchNames,
               [c \in NodeIds |-> NoneV],
               [c \in NodeIds |-> TRUE],
               [c \in NodeIds |-> NoneV],
               [c \in NodeIds |-> CASE c = 1 -> p1 [] c = 3 -> p3 [] OTHER -> <<>>]) :
        p1 \in ParameterLists, p3 \in ParameterLists}

\* The residual options of an autocomplete interaction: none focused, the
\* parameter "q" focused alone or after a filled-in option, an undeclared name
\* focused, and two focused options.
AutocompleteLeafLists ==
    {<<>>,
     <<ScalarOpt(1)>>,
     <<AutoOpt("q", "pa")>>,
     <<ScalarOpt(1), AutoOpt("q", "pa")>>,
     <<AutoOpt("zz", "pa")>>,
     <<AutoOpt("q", "pa"), AutoOpt("zz", "pb")>>}

\* The autocomplete interactions dispatched: on the command "a", on its
\* subcommand "a", or on the unregistered "c".
AutocompleteInteractions ==
    {[name |-> n, options |-> o, kind |-> "ChatInput", target |-> NoneV] :
        n \in {"a", "c"},
        o \in AutocompleteLeafLists
              \cup {<<SubOpt("a", "SubCommand", l)>> : l \in AutocompleteLeafLists}}

\* What the suggestion generator can answer: a list of choices, an error, a panic.
Choices(x) == [kind |-> "Ok", payload |-> x]
GeneratorOutcomes ==
    {Choices("c1"), Choices("c2"), Err("GeneratorError", "e1"),
     Err("GeneratorError", "e2"), Panic("boom")}
\* What create_response can answer.
SendOutcomes == {"Ok", "Err"}

\* ctx.args.iter().find_map(..): the index of the first option whose value is
\* Autocomplete, 0 when there is none.
FocusedOption(args) ==
    IF \E i \in DOMAIN args : args[i].kind = "Autocomplete"
    THEN CHOOSE i \in DOMAIN args :
            /\ args[i].kind = "Autocomplete"
            /\ \A j \in 1..(i - 1) : args[j].kind # "Autocomplete"
    ELSE 0

\* parameters.iter().find(|p| p.name == *focused_option_name): the index of the
\* first parameter of that name, 0 when there is none.
FocusedParameter(parameters, focused_option_name) ==
    IF \E i \in DOMAIN parameters : parameters[i].name = focused_option_name
    THEN CHOOSE i \in DOMAIN parameters :
            /\ parameters[i].name = focused_option_name
            /\ \A j \in 1..(i - 1) : parameters[j].name # focused_option_name
    ELSE 0

\* The lookups of run_autocomplete on the current context: "no_focus",
\* "unknown_parameter", "no_callback" or "callback".
Lookup ==
    LET f == FocusedOption(ctx.args)
        parameters == framework.cmd[ctx.command].parameters
    IN  IF f = 0 THEN "no_focus"
        ELSE LET p == FocusedParameter(parameters, ctx.args[f].name)
             IN  IF p = 0 THEN "unknown_parameter"
                 ELSE IF parameters[p].autocomplete_callback THEN "callback"
                 ELSE "no_callback"

\* A faulty variant: a caught panic is swallowed.
DispatchAutocompleteResult_swallows_panic(outcome) ==
    LET r == catch_unwind_maybe(outcome)
    IN  IF r.caught THEN Ok ELSE r.value

\* catch_unwind_maybe(run_autocomplete(ctx)).await.map_err(|payload| CommandPanic)??
\* followed by Ok(()): what dispatch_autocomplete returns for an outcome of
\* run_autocomplete.
DispatchAutocompleteResult(outcome) ==
    LET r == catch_unwind_maybe(outcome)
    IN  IF r.caught THEN Err("CommandPanic", r.payload) ELSE r.value

InitAutocomplete ==
    /\ framework \in AutocompleteFrameworks
    /\ interaction = NoInteraction
    /\ entry = NoneV
    /\ pc = "idle"
    /\ ctx = NoCtx
    /\ result = Pending
    /\ checked = NoneV
    /\ raised = NotRun
    /\ trace = <<>>
    /\ ndispatch = 0
    /\ panics = 0
    /\ response = NoResponse
    /\ now = 0
    /\ last_invocation_time = NoStamps
    /\ tasks = NoTasks
    /\ create_reply = Default
    /\ reply_ctx = NoReplyCtx
    /\ reply_pc = "idle"
    /\ explicit = NoExplicit
    /\ completed = NotCompleted
    /\ nbuilder = 0

\* A caller enters dispatch_autocomplete with a fresh interaction and an empty
\* parent_commands Vec. The options handed to extract_command are the
\* interaction's.
DispatchAutocomplete ==
    /\ pc \in {"idle", "returned"}
    /\ ndispatch < MaxDispatch
    /\ interaction' \in AutocompleteInteractions
    /\ entry' = "dispatch_autocomplete"
    /\ pc' = "extract_command"
    /\ ctx' = NoCtx
    /\ result' = Pending
    /\ checked' = NoneV
    /\ raised' = NotRun
    /\ trace' = <<>>
    /\ response' = NoResponse
    /\ ndispatch' = ndispatch + 1
    /\ panics' = IF raised.kind = "Panic" THEN panics + 1 ELSE panics
    /\ UNCHANGED <<framework, cooldownVars, replyVars>>

\* run_autocomplete: check_permissions_and_cooldown(ctx.into()).await?;
RunAutocomplete_Check ==
    /\ pc = "check"
    /\ entry = "dispatch_autocomplete"
    /\ \E o \in CheckOutcomes :
          /\ checked' = o
          /\ IF o = "Pass"
             THEN pc' = "lookup" /\ UNCHANGED result
             ELSE Return(DispatchAutocompleteResult(Err(o, NoneV)))
    /\ trace' = Append(trace, "check")
    /\ UNCHANGED <<framework, interaction, entry, ctx, raised, ndispatch, panics,
                   response, cooldownVars, replyVars>>

\* None => { log::warn!(..); return Ok(()) }: no option is focused.
RunAutocomplete_NoFocus ==
    /\ pc = "lookup"
    /\ entry = "dispatch_autocomplete"
    /\ Lookup = "no_focus"
    /\ Return(DispatchAutocompleteResult(Ok))
    /\ UNCHANGED <<framework, interaction, entry, ctx, checked, raised, trace, ndispatch, panics,
                   response, cooldownVars, replyVars>>

\* A faulty variant: an unrecognized parameter name is a no-op.
RunAutocomplete_UnknownParameter_ignored ==
    /\ pc = "lookup"
    /\ entry = "dispatch_autocomplete"
    /\ Lookup = "unknown_parameter"
    /\ Return(DispatchAutocompleteResult(Ok))
    /\ UNCHANGED <<framework, interaction, entry, ctx, checked, raised, trace, ndispatch, panics,
                   response, cooldownVars, replyVars>>

\* .ok_or(CommandStructureMismatch { .. })?: the focused option names no parameter.
RunAutocomplete_UnknownParameter ==
    /\ pc = "lookup"
    /\ entry = "dispatch_autocomplete"
    /\ Lookup = "unknown_parameter"
    /\ Return(DispatchAutocompleteResult(
            Err("CommandStructureMismatch",
                "focused autocomplete parameter name not recognized")))
    /\ UNCHANGED <<framework, interaction, entry, ctx, checked, raised, trace, ndispatch, panics,
                   response, cooldownVars, replyVars>>

\* A faulty variant: a parameter without a generator is answered with an empty response.
RunAutocomplete_NoCallback_responds ==
    /\ pc = "lookup"
    /\ entry = "dispatch_autocomplete"
    /\ Lookup = "no_callback"
    /\ \E s \in SendOutcomes : response' = [body |-> NoneV, outcome |-> s]
    /\ trace' = Append(trace, "create_response")
    /\ Return(DispatchAutocompleteResult(Ok))
    /\ UNCHANGED <<framework, interaction, entry, ctx, checked, raised, ndispatch, panics,
                   cooldownVars, replyVars>>

\* _ => return Ok(()): the focused parameter has no autocomplete_callback.
RunAutocomplete_NoCallback ==
    /\ pc = "lookup"
    /\ entry = "dispatch_autocomplete"
    /\ Lookup = "no_callback"
    /\ Return(DispatchAutocompleteResult(Ok))
    /\ UNCHANGED <<framework, interaction, entry, ctx, checked, raised, trace, ndispatch, panics,
                   response, cooldownVars, replyVars>>

\* A faulty variant: the generator's error is returned to the caller.
RunAutocomplete_Callback_error_returned ==
    /\ pc = "lookup"
    /\ entry = "dispatch_autocomplete"
    /\ Lookup = "callback"
    /\ \E o \in GeneratorOutcomes :
          /\ raised' = o
          /\ IF o.kind = "Ok"
             THEN pc' = "create_response" /\ UNCHANGED result
             ELSE Return(DispatchAutocompleteResult(o))
    /\ trace' = Append(trace, "autocomplete_callback")
    /\ UNCHANGED <<framework, interaction, entry, ctx, checked, ndispatch, panics,
                   response, cooldownVars, replyVars>>

\* match autocomplete_callback(ctx, partial_input).await { Ok(x) => x,
\* Err(e) => { log::warn!(..); return Ok(()) } }; a panic of the generator unwinds
\* out of run_autocomplete.
RunAutocomplete_Callback ==
    /\ pc = "lookup"
    /\ entry = "dispatch_autocomplete"
    /\ Lookup = "callback"
    /\ \E o \in GeneratorOutcomes :
          /\ raised' = o
          /\ CASE o.kind = "Ok" -> pc' = "create_response" /\ UNCHANGED result
               [] o.kind = "Panic" -> Return(DispatchAutocompleteResult(o))
               [] OTHER -> Return(DispatchAutocompleteResult(Ok))
    /\ trace' = Append(trace, "autocomplete_callback")
    /\ UNCHANGED <<framework, interaction, entry, ctx, checked, ndispatch, panics,
                   response, cooldownVars, replyVars>>

\* A faulty variant: a failed transmission is attempted a second time.
RunAutocomplete_CreateResponse_retried ==
    /\ pc = "create_response"
    /\ entry = "dispatch_autocomplete"
    /\ \E s \in SendOutcomes :
          /\ response' = [body |-> raised.payload, outcome |-> s]
          /\ trace' = IF s = "Err"
                      THEN trace \o <<"create_response", "create_response">>
                      ELSE Append(trace, "create_response")
    /\ Return(DispatchAutocompleteResult(Ok))
    /\ UNCHANGED <<framework, interaction, entry, ctx, checked, raised, ndispatch, panics,
                   cooldownVars, replyVars>>

\* if let Err(e) = interaction.create_response(..).await { log::warn!(..) }
\* Ok(()): the generated choices are sent once, whatever the answer. ctx.interaction
\* is the Autocomplete variant dispatch_autocomplete built, so the `_ =>` arm of
\* the match before the send is not taken.
RunAutocomplete_CreateResponse ==
    /\ pc = "create_response"
    /\ entry = "dispatch_autocomplete"
    /\ \E s \in SendOutcomes : response' = [body |-> raised.payload, outcome |-> s]
    /\ trace' = Append(trace, "create_response")
    /\ Return(DispatchAutocompleteResult(Ok))
    /\ UNCHANGED <<framework, interaction, entry, ctx, checked, raised, ndispatch, panics,
                   cooldownVars, replyVars>>

NextAutocomplete ==
    \/ DispatchAutocomplete
    \/ ExtractCommand
    \/ RunAutocomplete_Check
    \/ RunAutocomplete_NoFocus
    \/ RunAutocomplete_UnknownParameter
    \/ RunAutocomplete_NoCallback
    \/ RunAutocomplete_Callback
    \/ RunAutocomplete_CreateResponse

SpecAutocomplete == InitAutocomplete /\ [][NextAutocomplete]_vars

-----------------------------------------------------------------------------
(* The autocomplete claims *)

InAutocomplete == entry = "dispatch_autocomplete"

MismatchError ==
    Err("CommandStructureMismatch", "focused autocomplete parameter name not recognized")

\* C12 as claimed: once the command of an autocomplete request was resolved,
\* dispatch_autocomplete returns success whichever step of run_autocomplete
\* failed.
C12_AsClaimed ==
    (InAutocomplete /\ pc = "returned" /\ ctx.command # 0) => result = Ok

\* C12, amended: once the command of an autocomplete request was resolved,
\* dispatch_autocomplete returns success when no option is focused, when the
\* focused parameter has no generator, when the generator returns an error and
\* when the transmission fails; a rejection by the check, a focused option
\* naming no parameter and a panic of the generator are returned to the caller
\* as the check's error, CommandStructureMismatch and CommandPanic.
C12_Downgraded ==
    (InAutocomplete /\ pc = "returned" /\ ctx.command # 0) =>
        result = CASE checked # "Pass" -> Err(checked, NoneV)
                   [] checked = "Pass" /\ Lookup = "unknown_parameter" -> MismatchError
                   [] checked = "Pass" /\ raised.kind = "Panic" ->
                        Err("CommandPanic", raised.payload)
                   [] OTHER -> Ok

\* C12's case: the generator of the subcommand's parameter panicked and
\* dispatch_autocomplete returned CommandPanic with the payload, in the second
\* request made.
C12_Witness ==
    /\ InAutocomplete /\ pc = "returned"
    /\ ctx.command = 3
    /\ raised = Panic("boom")
    /\ result = Err("CommandPanic", "boom")
    /\ ndispatch = 2

\* C13: in run_autocomplete (entered, with the check passed), when no residual
\* option is focused, or when the focused option's parameter has no
\* autocomplete_callback, no generator is invoked, no response is sent and
\* the call returns success.
C13_NothingToComplete ==
    (InAutocomplete /\ checked = "Pass" /\ Lookup \in {"no_focus", "no_callback"}) =>
        /\ Count("autocomplete_callback") = 0
        /\ Count("create_response") = 0
        /\ raised = NotRun
        /\ response = NoResponse
        /\ pc = "returned" => result = Ok

\* C13's case: the focused option names a parameter declared without a
\* generator, after a parameter of another name, and the call returned success.
C13_Witness ==
    /\ InAutocomplete /\ pc = "returned" /\ checked = "Pass"
    /\ Lookup = "no_callback"
    /\ FocusedOption(ctx.args) = 2
    /\ result = Ok

\* C14: when the suggestion generator returns an error, no response is sent,
\* the generator has been invoked once and is not invoked again, and the call
\* returns success.
C14_GeneratorError ==
    (InAutocomplete /\ raised.kind = "GeneratorError") =>
        /\ Count("autocomplete_callback") = 1
        /\ Count("create_response") = 0
        /\ response = NoResponse
        /\ pc = "returned"
        /\ result = Ok

\* C14's case: the generator of the top-level command returned the error e2.
C14_Witness ==
    /\ InAutocomplete
    /\ raised = Err("GeneratorError", "e2")
    /\ ctx.command = 1
    /\ trace = <<"resolve", "check", "autocomplete_callback">>
    /\ result = Ok

\* C15: per autocomplete invocation the response is transmitted at most once;
\* after the generator succeeded there is exactly one send attempt, carrying
\* the generated choices, and the call returns success whether or not the
\* transmission failed.
C15_SentOnce ==
    InAutocomplete =>
        /\ Count("create_response") <= 1
        /\ (pc = "returned" /\ raised.kind = "Ok") =>
              /\ Count("create_response") = 1
              /\ Count("autocomplete_callback") = 1
              /\ response # NoResponse
              /\ response.body = raised.payload
              /\ result = Ok
        /\ Count("create_response") = 1 => raised.kind = "Ok"

\* C15's case: the transmission of the generated choices failed and the call
\* returned success after that one attempt.
C15_Witness ==
    /\ InAutocomplete /\ pc = "returned"
    /\ response = [body |-> "c2", outcome |-> "Err"]
    /\ trace = <<"resolve", "check", "autocomplete_callback", "create_response">>
    /\ result = Ok

\* C18: in run_autocomplete (entered, with the check passed), when a focused
\* option exists and its name is the name of no declared parameter, the result
\* is CommandStructureMismatch, no generator is invoked and no response is sent.
C18_UnknownParameter ==
    (/\ InAutocomplete /\ checked = "Pass"
     /\ FocusedOption(ctx.args) # 0
     /\ \A i \in DOMAIN framework.cmd[ctx.command].parameters :
            framework.cmd[ctx.command].parameters[i].name
                # ctx.args[FocusedOption(ctx.args)].name) =>
        /\ Count("autocomplete_callback") = 0
        /\ Count("create_response") = 0
        /\ raised = NotRun
        /\ response = NoResponse
        /\ pc = "returned" => result = MismatchError

\* C18's case: the command declares the parameters "key" and "q", the focused
\* option is named "zz", and the call returned CommandStructureMismatch.
C18_Witness ==
    /\ InAutocomplete /\ pc = "returned" /\ checked = "Pass"
    /\ Len(framework.cmd[ctx.command].parameters) = 2
    /\ FocusedOption(ctx.args) # 0
    /\ ctx.args[FocusedOption(ctx.args)].name = "zz"
    /\ result = MismatchError

-----------------------------------------------------------------------------
(* Concurrent invocations against the cooldown tracker *)

\* The configured cooldown duration of the command, in ticks.
CooldownDuration == 2

\* The trees of the cooldown specification: the command "a" with or without a
\* slash action. Every invocation is of that command.
CooldownFrameworks ==
    {f \in DispatchFrameworks :
        f.cmd[1].context_menu_action = NoneV /\ f.cmd[3].slash_action}
CooldownCommand == 1
CooldownEntries ==
    {"dispatch_interaction", "extract_command_and_run_checks", "dispatch_autocomplete"}

\* The cooldown stage of check_permissions_and_cooldown, which common.rs
\* defines: now - last_invocation_time[key] against the duration; the time
\* left when the key is cooling down, 0 when the invocation is allowed.
remaining_cooldown(key) ==
    IF key \in DOMAIN last_invocation_time
       /\ now - last_invocation_time[key] < CooldownDuration
    THEN CooldownDuration - (now - last_invocation_time[key])
    ELSE 0

\* last_invocation_time[key] = now
start_cooldown(key) ==
    [k \in DOMAIN last_invocation_time \cup {key} |->
        IF k = key THEN now ELSE last_invocation_time[k]]

\* check_permissions_and_cooldown(ctx) as one atomic step on the key's slot:
\* reject while the key is cooling down, otherwise allow and stamp. Every call
\* site of slash.rs calls it with the same argument.
check_permissions_and_cooldown(key) ==
    IF remaining_cooldown(key) > 0
    THEN [allowed |-> FALSE, tracker |-> last_invocation_time]
    ELSE [allowed |-> TRUE, tracker |-> start_cooldown(key)]

InitCooldown ==
    /\ framework \in CooldownFrameworks
    /\ interaction = NoInteraction
    /\ entry = NoneV
    /\ pc = "idle"
    /\ ctx = NoCtx
    /\ result = Pending
    /\ checked = NoneV
    /\ raised = NotRun
    /\ trace = <<>>
    /\ ndispatch = 0
    /\ panics = 0
    /\ response = NoResponse
    /\ now = 0
    /\ last_invocation_time = NoStamps
    /\ tasks = NoTasks
    /\ create_reply = Default
    /\ reply_ctx = NoReplyCtx
    /\ reply_pc = "idle"
    /\ explicit = NoExplicit
    /\ completed = NotCompleted
    /\ nbuilder = 0

callVars == <<framework, interaction, entry, pc, ctx, result, checked, raised, trace,
              ndispatch, panics, response>>

\* Time passes between two steps of the invocations.
Tick ==
    /\ now < MaxTime
    /\ now' = now + 1
    /\ UNCHANGED <<callVars, replyVars, last_invocation_time, tasks>>

\* An event arrives and its task enters one of the pub fns; the interaction
\* resolves to the command, for one of the scope entities.
Cooldown_Call(t) ==
    /\ tasks[t].pc = "idle"
    /\ \E e \in CooldownEntries, key \in CooldownKeys, kind \in {"ChatInput", "Other"} :
          tasks' = [tasks EXCEPT ![t] =
                        [IdleTask EXCEPT !.entry = e, !.pc = "check",
                                         !.key = key, !.kind = kind]]
    /\ UNCHANGED <<callVars, replyVars, now, last_invocation_time>>

\* The check of task t, and where the task goes when it is allowed.
Cooldown_Check(t, r, next) ==
    /\ last_invocation_time' = r.tracker
    /\ tasks' = [tasks EXCEPT ![t] =
                    IF r.allowed
                    THEN [@ EXCEPT !.pc = next, !.passed = TRUE, !.passed_at = now,
                                   !.stamped = (r.tracker # last_invocation_time),
                                   !.result = IF next = "returned" THEN "Ok" ELSE NoneV]
                    ELSE [@ EXCEPT !.pc = "returned", !.result = "CooldownHit"]]
    /\ UNCHANGED <<callVars, replyVars, now>>

\* extract_command_and_run_checks: check_permissions_and_cooldown(ctx).await?; Ok(ctx)
Cooldown_RunChecks(t) ==
    /\ tasks[t].pc = "check"
    /\ tasks[t].entry = "extract_command_and_run_checks"
    /\ Cooldown_Check(t, check_permissions_and_cooldown(tasks[t].key), "returned")

\* A faulty variant: run_command's check allows without stamping the key.
Cooldown_RunCommand_Check_unstamped(t) ==
    /\ tasks[t].pc = "check"
    /\ tasks[t].entry = "dispatch_interaction"
    /\ Cooldown_Check(t, [allowed |-> remaining_cooldown(tasks[t].key) = 0,
                          tracker |-> last_invocation_time], "action")

\* run_command: check_permissions_and_cooldown(ctx).await?;
Cooldown_RunCommand_Check(t) ==
    /\ tasks[t].pc = "check"
    /\ tasks[t].entry = "dispatch_interaction"
    /\ Cooldown_Check(t, check_permissions_and_cooldown(tasks[t].key), "action")

\* run_autocomplete: check_permissions_and_cooldown(ctx.into()).await?;
Cooldown_RunAutocomplete_Check(t) ==
    /\ tasks[t].pc = "check"
    /\ tasks[t].entry = "dispatch_autocomplete"
    /\ Cooldown_Check(t, check_permissions_and_cooldown(tasks[t].key), "lookup")

\* run_command after its check: pre_command, then the handler the kind selects,
\* a structure mismatch, or nothing for another kind.
Cooldown_RunCommand_Action(t) ==
    /\ tasks[t].pc = "action"
    /\ LET selected == SelectAction(CooldownCommand, tasks[t].kind, NoneV)
       IN  tasks' = [tasks EXCEPT ![t] =
                [@ EXCEPT !.pc = "returned",
                          !.handler_run = (selected \in HandlerEvents),
                          !.result = IF selected = "mismatch"
                                     THEN "CommandStructureMismatch" ELSE "Ok"]]
    /\ UNCHANGED <<callVars, replyVars, now, last_invocation_time>>

\* run_autocomplete after its check: no command handler is executed.
Cooldown_RunAutocomplete_Rest(t) ==
    /\ tasks[t].pc = "lookup"
    /\ tasks' = [tasks EXCEPT ![t] = [@ EXCEPT !.pc = "returned", !.result = "Ok"]]
    /\ UNCHANGED <<callVars, replyVars, now, last_invocation_time>>

NextCooldown ==
    \/ Tick
    \/ \E t \in Tasks :
          \/ Cooldown_Call(t)
          \/ Cooldown_RunChecks(t)
          \/ Cooldown_RunCommand_Check(t)
          \/ Cooldown_RunAutocomplete_Check(t)
          \/ Cooldown_RunCommand_Action(t)
          \/ Cooldown_RunAutocomplete_Rest(t)

SpecCooldown == InitCooldown /\ [][NextCooldown]_vars

-----------------------------------------------------------------------------
(* The cooldown claims *)

Passed(t) == tasks[t].passed

-----------------------------------------------------------------------------
(* pre_command *)

\* The positions of event ev in the trace of the current call.
Positions(ev) == {i \in DOMAIN trace : trace[i] = ev}

\* C21: pre_command is invoked exactly once in every run_command call whose
\* check passed, before the handler is selected, also when the call then ends
\* in CommandStructureMismatch or in the unknown-kind return, where no handler
\* runs and post_command is not invoked; it is never invoked without a
\* passing check, and every handler and every post_command of a dispatch comes
\* after its pre_command.
C21_PreCommandOnce ==
    InDispatch =>
        /\ Count("pre_command") <= 1
        /\ Count("pre_command") = 1 => checked = "Pass"
        /\ (checked = "Pass" /\ pc \in {"action", "post_command", "returned"}) =>
              /\ Count("pre_command") = 1
              /\ trace[3] = "pre_command"
        /\ \A i \in DOMAIN trace :
              trace[i] \in HandlerEvents \cup {"post_command"} =>
                  \E j \in Positions("pre_command") : j < i
        /\ (checked = "Pass" /\ pc = "returned" /\ Selected \in {"mismatch", "other"}) =>
              /\ trace = <<"resolve", "check", "pre_command">>
              /\ raised = NotRun

\* C21's case: a call whose check passed ran pre_command and then returned
\* CommandStructureMismatch, with no handler and no post_command invoked.
C21_Witness ==
    /\ InDispatch /\ pc = "returned" /\ checked = "Pass"
    /\ ctx.command # 0
    /\ Selected = "mismatch"
    /\ Count("pre_command") = 1
    /\ HandlersRun = <<>>
    /\ Count("post_command") = 0
    /\ result = Err("CommandStructureMismatch", NoneV)

-----------------------------------------------------------------------------
(* CreateReply (src/src/reply/builder.rs) *)

\* The values given to the builder methods.
Contents == {"hi", "yo"}
Embeds == {"embed1"}
Attachments == {"file1"}
ComponentLists == {<<>>, <<"row1">>}
AllowedMentions == {"all", "nobody"}

\* The builder methods: each sets or extends one field of self.
content(self, c) == [self EXCEPT !.content = Some(c)]
embed(self, b) == [self EXCEPT !.embeds = Append(@, b)]
components(self, b) == [self EXCEPT !.components = Some(b)]
attachment(self, a) == [self EXCEPT !.attachments = Append(@, a)]
ephemeral(self, e) == [self EXCEPT !.ephemeral = Some(e)]
allowed_mentions(self, b) == [self EXCEPT !.allowed_mentions = Some(b)]
reply(self, r) == [self EXCEPT !.reply = r]

\* Option::get_or_insert: the value is inserted only into None.
get_or_insert(option, value) == IF option = None THEN Some(value) ELSE option

\* framework.options.reply_callback: a function of the user that may rewrite
\* the reply; two of them.
ReplyCallbacks == {"make_ephemeral", "strip_mentions"}
callback(cb, self) ==
    CASE cb = "make_ephemeral" -> [self EXCEPT !.ephemeral = Some(TRUE)]
      [] cb = "strip_mentions" -> [self EXCEPT !.allowed_mentions = None,
                                               !.content = Some("edited")]

\* The Contexts complete_from_ctx is called with: the command's ephemeral
\* default, the framework's allowed_mentions and reply_callback, set or not.
ReplyContexts ==
    {[ephemeral |-> e, allowed_mentions |-> am, reply_callback |-> cb] :
        e \in BOOLEAN,
        am \in {None} \cup {Some(x) : x \in AllowedMentions},
        cb \in {None} \cup {Some(x) : x \in ReplyCallbacks}}

\* A faulty variant: the defaults are written over what the reply already holds.
FillDefaults_overrides(self, context) ==
    LET with_ephemeral == [self EXCEPT !.ephemeral = Some(context.ephemeral)]
    IN  IF context.allowed_mentions # None
        THEN [with_ephemeral EXCEPT !.allowed_mentions = context.allowed_mentions]
        ELSE with_ephemeral

\* complete_from_ctx up to the reply_callback: the two get_or_insert.
FillDefaults(self, context) ==
    LET with_ephemeral ==
            [self EXCEPT !.ephemeral = get_or_insert(@, context.ephemeral)]
    IN  IF context.allowed_mentions # None
        THEN [with_ephemeral EXCEPT
                !.allowed_mentions = get_or_insert(@, context.allowed_mentions[1])]
        ELSE with_ephemeral

complete_from_ctx(self, context) ==
    IF context.reply_callback # None
    THEN callback(context.reply_callback[1], FillDefaults(self, context))
    ELSE FillDefaults(self, context)

\* CreateReply::new() in some Context.
InitReply ==
    /\ framework \in {f \in DispatchFrameworks : f.cmd[1].context_menu_action = NoneV
                                                 /\ f.cmd[1].slash_action
                                                 /\ f.cmd[3].slash_action}
    /\ interaction = NoInteraction
    /\ entry = NoneV
    /\ pc = "idle"
    /\ ctx = NoCtx
    /\ result = Pending
    /\ checked = NoneV
    /\ raised = NotRun
    /\ trace = <<>>
    /\ ndispatch = 0
    /\ panics = 0
    /\ response = NoResponse
    /\ now = 0
    /\ last_invocation_time = NoStamps
    /\ tasks = NoTasks
    /\ create_reply = Default
    /\ reply_ctx \in ReplyContexts
    /\ reply_pc = "building"
    /\ explicit = NoExplicit
    /\ completed = NotCompleted
    /\ nbuilder = 0

\* pub fn content
Content ==
    /\ reply_pc = "building"
    /\ nbuilder < MaxBuilderCalls
    /\ \E c \in Contents :
          /\ create_reply' = content(create_reply, c)
          /\ UNCHANGED explicit
    /\ nbuilder' = nbuilder + 1
    /\ UNCHANGED <<reply_ctx, reply_pc, completed, callVars, cooldownVars>>

\* pub fn embed
Embed ==
    /\ reply_pc = "building"
    /\ nbuilder < MaxBuilderCalls
    /\ \E b \in Embeds :
          /\ create_reply' = embed(create_reply, b)
          /\ UNCHANGED explicit
    /\ nbuilder' = nbuilder + 1
    /\ UNCHANGED <<reply_ctx, reply_pc, completed, callVars, cooldownVars>>

\* pub fn components
Components ==
    /\ reply_pc = "building"
    /\ nbuilder < MaxBuilderCalls
    /\ \E b \in ComponentLists :
          /\ create_reply' = components(create_reply, b)
          /\ UNCHANGED explicit
    /\ nbuilder' = nbuilder + 1
    /\ UNCHANGED <<reply_ctx, reply_pc, completed, callVars, cooldownVars>>

\* pub fn attachment
Attachment ==
    /\ reply_pc = "building"
    /\ nbuilder < MaxBuilderCalls
    /\ \E a \in Attachments :
          /\ create_reply' = attachment(create_reply, a)
          /\ UNCHANGED explicit
    /\ nbuilder' = nbuilder + 1
    /\ UNCHANGED <<reply_ctx, reply_pc, completed, callVars, cooldownVars>>

\* pub fn ephemeral
Ephemeral ==
    /\ reply_pc = "building"
    /\ nbuilder < MaxBuilderCalls
    /\ \E e \in BOOLEAN :
          /\ create_reply' = ephemeral(create_reply, e)
          /\ explicit' = [explicit EXCEPT !.ephemeral = Some(e)]
    /\ nbuilder' = nbuilder + 1
    /\ UNCHANGED <<reply_ctx, reply_pc, completed, callVars, cooldownVars>>

\* pub fn allowed_mentions
SetAllowedMentions ==
    /\ reply_pc = "building"
    /\ nbuilder < MaxBuilderCalls
    /\ \E b \in AllowedMentions :
          /\ create_reply' = allowed_mentions(create_reply, b)
          /\ explicit' = [explicit EXCEPT !.allowed_mentions = Some(b)]
    /\ nbuilder' = nbuilder + 1
    /\ UNCHANGED <<reply_ctx, reply_pc, completed, callVars, cooldownVars>>

\* pub fn reply
Reply ==
    /\ reply_pc = "building"
    /\ nbuilder < MaxBuilderCalls
    /\ \E r \in BOOLEAN :
          /\ create_reply' = reply(create_reply, r)
          /\ UNCHANGED explicit
    /\ nbuilder' = nbuilder + 1
    /\ UNCHANGED <<reply_ctx, reply_pc, completed, callVars, cooldownVars>>

\* pub(crate) fn complete_from_ctx, called where the reply is sent.
CompleteFromCtx ==
    /\ reply_pc = "building"
    /\ completed' = [self |-> create_reply, filled |-> FillDefaults(create_reply, reply_ctx)]
    /\ create_reply' = complete_from_ctx(create_reply, reply_ctx)
    /\ reply_pc' = "completed"
    /\ UNCHANGED <<reply_ctx, explicit, nbuilder, callVars, cooldownVars>>

NextReply ==
    \/ Content
    \/ Embed
    \/ Components
    \/ Attachment
    \/ Ephemeral
    \/ SetAllowedMentions
    \/ Reply
    \/ CompleteFromCtx

SpecReply == InitReply /\ [][NextReply]_vars

-----------------------------------------------------------------------------
(* The reply builder's claim *)

\* C22: complete_from_ctx fills in defaults without overriding explicit
\* choices. In the reply handed to the reply_callback (returned as it is when
\* there is no callback), ephemeral is the value last given to ephemeral(..)
\* if there was one and the command's ephemeral default otherwise;
\* allowed_mentions is the value last given to allowed_mentions(..) if there
\* was one and otherwise the framework's allowed_mentions, staying None when
\* none is configured; content, embeds, attachments, components and reply are
\* those of the reply it was called on.
C22_DefaultsDoNotOverride ==
    reply_pc = "completed" =>
        /\ completed.filled.ephemeral =
              IF explicit.ephemeral # None
              THEN explicit.ephemeral ELSE Some(reply_ctx.ephemeral)
        /\ completed.filled.allowed_mentions =
              IF explicit.allowed_mentions # None
              THEN explicit.allowed_mentions ELSE reply_ctx.allowed_mentions
        /\ completed.filled.content = completed.self.content
        /\ completed.filled.embeds = completed.self.embeds
        /\ completed.filled.attachments = completed.self.attachments
        /\ completed.filled.components = completed.self.components
        /\ completed.filled.reply = completed.self.reply
        /\ reply_ctx.reply_callback = None => create_reply = completed.filled

\* C22's case: ephemeral(false) was called on a command whose default is
\* ephemeral, allowed_mentions was not set while the framework configures one,
\* the content was set, and complete_from_ctx kept the explicit false, took
\* the framework's mentions and left the content.
C22_Witness ==
    /\ reply_pc = "completed"
    /\ explicit.ephemeral = Some(FALSE)
    /\ reply_ctx.ephemeral
    /\ explicit.allowed_mentions = None
    /\ reply_ctx.allowed_mentions = Some("all")
    /\ reply_ctx.reply_callback = None
    /\ create_reply.ephemeral = Some(FALSE)
    /\ create_reply.allowed_mentions = Some("all")
    /\ create_reply.content = Some("hi")

====
